---------------------------- MODULE Spec2Model ----------------------------
(***************************************************************************)
(* Model of the GL / IHUB reconciliation pipeline:                         *)
(*   DataProcessor (data_processor.py), AnomalyDetector                    *)
(*   (anomaly_detector.py), HybridAnomalyClassifier                        *)
(*   (anomaly_classifier.py), AIIInsightsGenerator (ai_insights.py) and    *)
(*   ReconciliationWorkflow (reconciliation_workflow.py).                  *)
(*                                                                         *)
(* Balances are pandas float64 columns.  A float64 is modelled exactly, as *)
(* a sign and a fixed-point magnitude: a sequence of limbs of LimbBits     *)
(* bits, most significant first, IntLimbs limbs before the binary point    *)
(* and FracLimbs after it.  Every arithmetic operator computes the exact   *)
(* result and rounds it to Mant significant bits, to nearest, ties to      *)
(* even, as IEEE-754 does.                                                 *)
(***************************************************************************)
EXTENDS Integers, Sequences, FiniteSets, TLC

\* ------------------------------------------------------------------------
\* float64 arithmetic
\* ------------------------------------------------------------------------

\* the representation: limbs of LimbBits bits (two limbs multiply without
\* leaving the integers TLC has), IntLimbs of them for the integer part, which
\* bounds the balances, FracLimbs for the fraction, which bounds how small a
\* non-zero balance may be for its 53 bits to fit
LimbBits == 12
IntLimbs == 2
FracLimbs == 5

\* significand of a float64, the dtype pandas gives a numeric column
Mant == 53

NLimbs == IntLimbs + FracLimbs

ZeroLimbs(n) == [i \in 1..n |-> 0]

RECURSIVE Pow2(_)
Pow2(k) == IF k = 0 THEN 1 ELSE 2 * Pow2(k - 1)

Base == Pow2(LimbBits)

RECURSIVE BitLen(_)
\* number of bits of the natural number v
BitLen(v) == IF v = 0 THEN 0 ELSE 1 + BitLen(v \div 2)

RECURSIVE NatLimbs(_, _)
\* the k low limbs of the natural number n, most significant first
NatLimbs(n, k) == IF k = 0 THEN <<>> ELSE Append(NatLimbs(n \div Base, k - 1), n % Base)

RECURSIVE LimbsNat(_, _)
\* the natural number written by the first k limbs of m
LimbsNat(m, k) == IF k = 0 THEN 0 ELSE Base * LimbsNat(m, k - 1) + m[k]

RECURSIVE FracExpand(_, _, _)
\* the first k limbs of the expansion of r / den, for 0 <= r < den
FracExpand(r, den, k) ==
    IF k = 0 THEN <<>>
    ELSE <<(r * Base) \div den>> \o FracExpand((r * Base) % den, den, k - 1)

RECURSIVE FracRem(_, _, _)
\* what is left of r / den after k limbs of its expansion
FracRem(r, den, k) == IF k = 0 THEN r ELSE FracRem((r * Base) % den, den, k - 1)

RECURSIVE LeadLimb(_, _)
LeadLimb(m, i) == IF i > Len(m) THEN 0 ELSE IF m[i] # 0 THEN i ELSE LeadLimb(m, i + 1)

IsZeroMag(m) == LeadLimb(m, 1) = 0

\* position of the leading 1 bit of m, counted from 1 at the most
\* significant bit of the first limb; 0 when m is zero
Lead(m) ==
    LET l == LeadLimb(m, 1)
    IN  IF l = 0 THEN 0 ELSE (l - 1) * LimbBits + (LimbBits - BitLen(m[l])) + 1

LimbOf(i) == (i - 1) \div LimbBits + 1

\* weight, inside its limb, of the bit at position i
UnitOf(i) == Pow2(LimbBits - 1 - ((i - 1) % LimbBits))

BitAt(m, i) == (m[LimbOf(i)] \div UnitOf(i)) % 2

\* some bit at a position after i is set
AnyAfter(m, i) ==
    \/ m[LimbOf(i)] % UnitOf(i) # 0
    \/ \E l \in (LimbOf(i) + 1)..Len(m) : m[l] # 0

RECURSIVE AddFrom(_, _, _, _)
AddFrom(a, b, i, c) ==
    IF i = 0 THEN <<>>
    ELSE Append(AddFrom(a, b, i - 1, (a[i] + b[i] + c) \div Base), (a[i] + b[i] + c) % Base)

AddMag(a, b) == AddFrom(a, b, Len(a), 0)

RECURSIVE SubFrom(_, _, _, _)
SubFrom(a, b, i, c) ==
    IF i = 0 THEN <<>>
    ELSE Append(SubFrom(a, b, i - 1, IF a[i] - b[i] - c < 0 THEN 1 ELSE 0),
                (a[i] - b[i] - c + Base) % Base)

\* a - b for magnitudes with a >= b
SubMag(a, b) == SubFrom(a, b, Len(a), 0)

RECURSIVE CmpFrom(_, _, _)
CmpFrom(a, b, i) ==
    IF i > Len(a) THEN 0
    ELSE IF a[i] < b[i] THEN -1
    ELSE IF a[i] > b[i] THEN 1
    ELSE CmpFrom(a, b, i + 1)

LessMag(a, b) == CmpFrom(a, b, 1) < 0

\* round-to-nearest, ties-to-even, to Mant significant bits; sticky says that
\* the exact value has non-zero bits beyond the end of m
RoundMag(m, sticky) ==
    LET n == Len(m)
        k == Lead(m)
        cut == k + Mant - 1
    IN  IF k = 0 \/ cut >= n * LimbBits THEN m
        ELSE LET rest == sticky \/ AnyAfter(m, cut + 1)
                 up == BitAt(m, cut + 1) = 1 /\ (rest \/ BitAt(m, cut) = 1)
                 t == [i \in 1..n |-> IF i < LimbOf(cut) THEN m[i]
                                      ELSE IF i = LimbOf(cut) THEN m[i] - (m[i] % UnitOf(cut))
                                      ELSE 0]
                 u == [i \in 1..n |-> IF i = LimbOf(cut) THEN UnitOf(cut) ELSE 0]
             IN  IF up THEN AddMag(t, u) ELSE t

NaN == [k |-> "nan"]

Num(neg, m) == [k |-> "num", neg |-> neg /\ ~IsZeroMag(m), m |-> m]

IsNaN(x) == x.k = "nan"

\* the float64 nearest to n / den (den > 0): what parsing a decimal text, and
\* what dividing two integer-valued floats, gives
FRatio(n, den) ==
    LET a == IF n < 0 THEN -n ELSE n
    IN  Num(n < 0, RoundMag(NatLimbs(a \div den, IntLimbs) \o FracExpand(a % den, den, FracLimbs),
                            FracRem(a % den, den, FracLimbs) # 0))

FInt(n) == FRatio(n, 1)

FNeg(x) == IF IsNaN(x) THEN NaN ELSE Num(~x.neg, x.m)

FAbs(x) == IF IsNaN(x) THEN NaN ELSE Num(FALSE, x.m)

FAdd(x, y) ==
    IF IsNaN(x) \/ IsNaN(y) THEN NaN
    ELSE IF x.neg = y.neg THEN Num(x.neg, RoundMag(AddMag(x.m, y.m), FALSE))
    ELSE IF LessMag(x.m, y.m) THEN Num(y.neg, RoundMag(SubMag(y.m, x.m), FALSE))
    ELSE Num(x.neg, RoundMag(SubMag(x.m, y.m), FALSE))

FSub(x, y) == FAdd(x, FNeg(y))

\* x < y; every comparison with NaN is false
FLt(x, y) ==
    IF IsNaN(x) \/ IsNaN(y) THEN FALSE
    ELSE IF x.neg /\ ~y.neg THEN TRUE
    ELSE IF ~x.neg /\ y.neg THEN FALSE
    ELSE IF x.neg THEN LessMag(y.m, x.m)
    ELSE LessMag(x.m, y.m)

FGt(x, y) == FLt(y, x)

RECURSIVE ColSum(_, _, _, _)
\* column c of the long multiplication of xm by ym: the low halves of the
\* limb products of weight c and the high halves of those of weight c + 1
ColSum(xm, ym, c, i) ==
    IF i = 0 THEN 0
    ELSE ColSum(xm, ym, c, i - 1)
         + (IF c - i >= 1 /\ c - i <= Len(ym) THEN (xm[i] * ym[c - i]) % Base ELSE 0)
         + (IF c + 1 - i >= 1 /\ c + 1 - i <= Len(ym) THEN (xm[i] * ym[c + 1 - i]) \div Base ELSE 0)

\* the exact product, 2 * IntLimbs limbs before the point
MulMag(xm, ym) ==
    LET cols == [c \in 1..(2 * Len(xm)) |-> ColSum(xm, ym, c, Len(xm))]
    IN  AddFrom(cols, ZeroLimbs(2 * Len(xm)), 2 * Len(xm), 0)

FMul(x, y) ==
    IF IsNaN(x) \/ IsNaN(y) THEN NaN
    ELSE LET p == RoundMag(MulMag(x.m, y.m), FALSE)
         IN  Num(x.neg # y.neg, SubSeq(p, IntLimbs + 1, IntLimbs + NLimbs))

\* numpy.rint: the nearest integer, ties to even, as an integer
FRint(x) ==
    LET ip == LimbsNat(x.m, IntLimbs)
        g == IntLimbs * LimbBits + 1
        up == BitAt(x.m, g) = 1 /\ (AnyAfter(x.m, g) \/ ip % 2 = 1)
        a == IF up THEN ip + 1 ELSE ip
    IN  IF x.neg THEN -a ELSE a

\* numpy.sign: -1, 0, 1, and NaN for NaN
FSign(x) == IF IsNaN(x) THEN "nan" ELSE IF IsZeroMag(x.m) THEN 0 ELSE IF x.neg THEN -1 ELSE 1

\* ------------------------------------------------------------------------
\* text and cells
\* ------------------------------------------------------------------------

\* the characters of the model, in code-point order (the order of Python's
\* string comparison)
Alphabet == <<" ", "$", "-", ".", "/", "0", "1", "2", "3", "4", "5", "6", "7", "8", "9",
              "_", "a", "b", "n">>

CharOrd(c) == CHOOSE i \in 1..Len(Alphabet) : Alphabet[i] = c

DigitChars == {"0", "1", "2", "3", "4", "5", "6", "7", "8", "9"}

DigitVal(c) == CharOrd(c) - CharOrd("0")

DigitChar(d) == Alphabet[CharOrd("0") + d]

RECURSIVE StrLess(_, _)
\* s < t for Python strings
StrLess(s, t) ==
    IF t = <<>> THEN FALSE
    ELSE IF s = <<>> THEN TRUE
    ELSE IF Head(s) = Head(t) THEN StrLess(Tail(s), Tail(t))
    ELSE CharOrd(Head(s)) < CharOrd(Head(t))

RECURSIVE LStrip(_)
LStrip(s) == IF s # <<>> /\ Head(s) = " " THEN LStrip(Tail(s)) ELSE s

RECURSIVE RStrip(_)
RStrip(s) == IF s # <<>> /\ s[Len(s)] = " " THEN RStrip(SubSeq(s, 1, Len(s) - 1)) ELSE s

\* str.strip()
Strip(s) == RStrip(LStrip(s))

RECURSIVE NatStr(_)
NatStr(n) == IF n < 10 THEN <<DigitChar(n)>> ELSE Append(NatStr(n \div 10), DigitChar(n % 10))

RECURSIVE StrNat(_)
StrNat(s) == IF s = <<>> THEN 0 ELSE 10 * StrNat(SubSeq(s, 1, Len(s) - 1)) + DigitVal(s[Len(s)])

RECURSIVE Pow10(_)
Pow10(k) == IF k = 0 THEN 1 ELSE 10 * Pow10(k - 1)

RECURSIVE ZeroPad(_, _)
ZeroPad(s, k) == IF Len(s) >= k THEN s ELSE ZeroPad(<<"0">> \o s, k)

\* the decimals a balance of the model is written with, at most
MaxDecimals == 2

\* x is the float64 nearest to a decimal of k places
HasDecimals(x, k) == FRatio(FRint(FMul(FAbs(x), FInt(Pow10(k)))), Pow10(k)) = FAbs(x)

\* str(x) for a float64: the shortest decimal that reads back as x
RECURSIVE Decimals(_, _)
\* the fewest places, from j on, x can be written with
Decimals(x, j) == IF j = MaxDecimals \/ HasDecimals(x, j) THEN j ELSE Decimals(x, j + 1)

\* the decimal n / 10^k, written with its sign
DecimalStr(neg, n, k) ==
    (IF neg THEN <<"-">> ELSE <<>>) \o NatStr(n \div Pow10(k)) \o <<".">>
    \o (IF k = 0 THEN <<"0">> ELSE ZeroPad(NatStr(n % Pow10(k)), k))

\* x written with k places
WithPlaces(x, k) == DecimalStr(x.neg, FRint(FMul(FAbs(x), FInt(Pow10(k)))), k)

FloatToStr(x) == IF IsNaN(x) THEN <<"n", "a", "n">> ELSE WithPlaces(x, Decimals(x, 0))

\* pd.to_numeric(errors='coerce') of one text: an optional '-', digits with at
\* most one '.', at least one digit; anything else is NaN
ParseNumeric(s) ==
    LET neg == s # <<>> /\ Head(s) = "-"
        body == IF neg THEN Tail(s) ELSE s
        dots == {i \in 1..Len(body) : body[i] = "."}
        ok == /\ \A i \in 1..Len(body) : body[i] \in DigitChars \cup {"."}
              /\ Cardinality(dots) <= 1
              /\ \E i \in 1..Len(body) : body[i] \in DigitChars
        p == IF dots = {} THEN Len(body) + 1 ELSE CHOOSE i \in dots : TRUE
        ip == SubSeq(body, 1, p - 1)
        fp == SubSeq(body, p + 1, Len(body))
    IN  IF ~ok THEN NaN
        ELSE FRatio((IF neg THEN -1 ELSE 1) * StrNat(ip \o fp), Pow10(Len(fp)))

\* str.replace(r'[^\d.-]', '', regex=True)
StripNonNumeric(s) == SelectSeq(s, LAMBDA c : c \in DigitChars \cup {".", "-"})

\* cells of a DataFrame: a float64 (Num, NaN), a Python str, a Python int, a
\* Timestamp or NaT
Str(s) == [k |-> "str", s |-> s]

IntCell(n) == [k |-> "int", v |-> n]

Date(n) == [k |-> "date", d |-> n]

NaT == [k |-> "nat"]

\* pd.isna / pd.notna
IsNull(c) == c.k \in {"nan", "nat"}

\* astype(str)
ToStr(c) ==
    CASE c.k = "str" -> c.s
      [] c.k = "int" -> (IF c.v < 0 THEN <<"-">> \o NatStr(-c.v) ELSE NatStr(c.v))
      [] c.k \in {"num", "nan"} -> FloatToStr(c)

\* pd.to_datetime(errors='coerce'): a Timestamp stays, an empty cell and a
\* text that is no date (every text of the model) become NaT
ToDatetime(c) == IF c.k = "date" THEN c ELSE NaT

\* ------------------------------------------------------------------------
\* DataFrame
\* ------------------------------------------------------------------------

None == [k |-> "None"]

required_columns == {"AsofDate", "Company", "Account", "AU", "Currency",
                     "Primary Account", "Secondary Account", "GL Balance", "IHUB Balance"}

text_columns == <<"Company", "Account", "AU", "Currency", "Primary Account",
                  "Secondary Account">>

numeric_cols == <<"GL Balance", "IHUB Balance">>

key_columns == <<"Company", "Account", "AU", "Currency", "Primary Account">>

\* a frame is its set of columns and its rows, in order; a row maps every
\* column, and "index" (the row's index label), to a cell
Frame(cols, rows) == [k |-> "df", cols |-> cols, rows |-> rows]

NRows(f) == Len(f.rows)

\* f with column c set to vals[i] in row i
WithCol(f, c, vals) ==
    Frame(f.cols \cup {c},
          [i \in 1..NRows(f) |->
              [x \in (DOMAIN f.rows[i]) \cup {c} |-> IF x = c THEN vals[i] ELSE f.rows[i][x]]])

\* f with column c mapped through Op
MapCol(f, c, Op(_)) == WithCol(f, c, [i \in 1..NRows(f) |-> Op(f.rows[i][c])])

\* f restricted to the columns keep
Project(f, keep) ==
    Frame(f.cols \cap keep,
          [i \in 1..NRows(f) |-> [x \in (f.cols \cap keep) \cup {"index"} |-> f.rows[i][x]]])

Ok(f) == [err |-> "none", df |-> f]

Raise(e, f) == [err |-> e, df |-> f]

\* the next statement of a method, unless an earlier one raised
Then(r, Stmt(_)) == IF r.err # "none" THEN r ELSE Stmt(r.df)

ColHasStr(f, c) == \E i \in 1..NRows(f) : f.rows[i][c].k = "str"

\* ------------------------------------------------------------------------
\* DataProcessor
\* ------------------------------------------------------------------------

E_NotLoaded == "ValueError: Data not loaded. Call load_data() first."
E_NotCleaned == "ValueError: Data not cleaned. Call clean_data() first."
E_NotPreprocessed == "ValueError: Data not preprocessed. Call preprocess_data() first."
E_NoDifferences == "ValueError: Differences not calculated. Call calculate_differences() first."
E_NotComplete == "ValueError: Processing not complete. Run all steps first."
E_Load == "ValueError: Error loading file"
E_NoMatchStatus == "ValueError: Match Status column not found. Run reconciliation first."

\* the errors that name the step to call first
StageOrderErrors == {E_NotLoaded, E_NotCleaned, E_NotPreprocessed, E_NoDifferences,
                     E_NotComplete, E_NoMatchStatus}

\* load_data: the sheet that was read is kept, also when the check of its
\* columns then raises
load_data(file) ==
    IF file.k = "unreadable" THEN Raise(E_Load, None)
    ELSE IF required_columns \ file.cols # {} THEN Raise(E_Load, file)
    ELSE Ok(file)

\* astype(str).str.strip()
StripText(v) == Str(Strip(ToStr(v)))

RECURSIVE CleanTextCols(_, _)
\* the loop over the first n text columns
CleanTextCols(f, n) ==
    IF n = 0 THEN f
    ELSE IF text_columns[n] \in f.cols
         THEN MapCol(CleanTextCols(f, n - 1), text_columns[n], StripText)
    ELSE CleanTextCols(f, n - 1)

CleanText(f) == Ok(CleanTextCols(f, Len(text_columns)))

\* pd.to_numeric(astype(str).str.replace(...), errors='coerce')
ToNumeric(v) == ParseNumeric(StripNonNumeric(ToStr(v)))

RECURSIVE CleanNumericCols(_, _)
\* the loop over the first n numeric columns
CleanNumericCols(f, n) ==
    IF n = 0 THEN f
    ELSE IF numeric_cols[n] \in f.cols
         THEN MapCol(CleanNumericCols(f, n - 1), numeric_cols[n], ToNumeric)
    ELSE CleanNumericCols(f, n - 1)

CleanNumeric(f) == Ok(CleanNumericCols(f, Len(numeric_cols)))

CleanDate(f) ==
    IF "AsofDate" \notin f.cols THEN Raise("KeyError", f)
    ELSE Ok(MapCol(f, "AsofDate", ToDatetime))

DropNA(f) ==
    IF {"AsofDate", "GL Balance", "IHUB Balance"} \ f.cols # {} THEN Raise("KeyError", f)
    ELSE Ok(Frame(f.cols, SelectSeq(f.rows, LAMBDA r : ~IsNull(r["AsofDate"])
                                                       /\ ~IsNull(r["GL Balance"])
                                                       /\ ~IsNull(r["IHUB Balance"]))))

clean_data(f) == Then(Then(Then(CleanText(f), CleanNumeric), CleanDate), DropNA)

\* Series.round(2) of a float64: rint(x * 100) / 100
Round2(x) == IF IsNaN(x) THEN NaN ELSE FRatio(FRint(FMul(x, FInt(100))), 100)

RoundCol(f, c) ==
    IF c \notin f.cols THEN Raise("KeyError", f)
    ELSE IF ColHasStr(f, c) THEN Raise("TypeError", f)
    ELSE Ok(MapCol(f, c, Round2))

RECURSIVE JoinKey(_, _)
\* the texts of the first n key columns of row r, joined by '_'
JoinKey(r, n) ==
    IF n = 1 THEN r[key_columns[1]].s
    ELSE JoinKey(r, n - 1) \o <<"_">> \o r[key_columns[n]].s

\* Company + '_' + Account + '_' + AU + '_' + Currency + '_' + Primary Account:
\* an empty cell gives an empty key, a cell that is no text cannot be added
CompositeKey(r) ==
    IF \E n \in 1..Len(key_columns) : IsNull(r[key_columns[n]]) THEN NaN
    ELSE Str(JoinKey(r, Len(key_columns)))

AddCompositeKey(f) ==
    IF \E n \in 1..Len(key_columns) : key_columns[n] \notin f.cols THEN Raise("KeyError", f)
    ELSE IF \E i \in 1..NRows(f), n \in 1..Len(key_columns) :
                f.rows[i][key_columns[n]].k \notin {"str", "nan"}
         THEN Raise("TypeError", f)
    ELSE Ok(WithCol(f, "CompositeKey", [i \in 1..NRows(f) |-> CompositeKey(f.rows[i])]))

\* a sorts before b in one sort column; empty cells sort last
CellLess(a, b) ==
    IF IsNull(a) THEN FALSE
    ELSE IF IsNull(b) THEN TRUE
    ELSE IF a.k = "str" THEN StrLess(a.s, b.s)
    ELSE a.d < b.d

CellSame(a, b) == (IsNull(a) /\ IsNull(b)) \/ a = b

RowLess(r, q) ==
    \/ CellLess(r["CompositeKey"], q["CompositeKey"])
    \/ /\ CellSame(r["CompositeKey"], q["CompositeKey"])
       /\ CellLess(r["AsofDate"], q["AsofDate"])

RECURSIVE InsertRow(_, _)
\* r put into the sorted rows after every row that does not sort after it
InsertRow(rows, r) ==
    IF rows = <<>> THEN <<r>>
    ELSE IF RowLess(r, Head(rows)) THEN <<r>> \o rows
    ELSE <<Head(rows)>> \o InsertRow(Tail(rows), r)

RECURSIVE SortRows(_)
\* stable sort
SortRows(rows) ==
    IF rows = <<>> THEN <<>>
    ELSE InsertRow(SortRows(SubSeq(rows, 1, Len(rows) - 1)), rows[Len(rows)])

\* sort_values(['CompositeKey', 'AsofDate']); texts and Timestamps in one
\* column do not compare
SortByKeyDate(f) ==
    IF "AsofDate" \notin f.cols THEN Raise("KeyError", f)
    ELSE IF ColHasStr(f, "AsofDate") /\ \E i \in 1..NRows(f) : f.rows[i]["AsofDate"].k = "date"
         THEN Raise("TypeError", f)
    ELSE Ok(Frame(f.cols, SortRows(f.rows)))

preprocess_data(f) ==
    Then(Then(Then(RoundCol(f, "GL Balance"), LAMBDA g : RoundCol(g, "IHUB Balance")),
              AddCompositeKey), SortByKeyDate)

\* a tolerance of 0.5 in place of 1
MatchStatus_half(absd) == IF FLt(absd, FRatio(1, 2)) THEN "Match" ELSE "Break"

\* np.where(|d| < 1, 'Match', 'Break')
MatchStatus(absd) == IF FLt(absd, FInt(1)) THEN "Match" ELSE "Break"

\* np.where(IHUB != 0, d / IHUB * 100, nan), the quotient left unevaluated
PctDifference(d, ihub) ==
    IF IsNaN(d) \/ IsNaN(ihub) THEN NaN
    ELSE IF IsZeroMag(ihub.m) THEN NaN
    ELSE [k |-> "pct", d |-> d, ihub |-> ihub]

calculate_differences(f) ==
    IF {"GL Balance", "IHUB Balance"} \ f.cols # {} THEN Raise("KeyError", f)
    ELSE IF ColHasStr(f, "GL Balance") \/ ColHasStr(f, "IHUB Balance") THEN Raise("TypeError", f)
    ELSE LET d == [i \in 1..NRows(f) |-> FSub(f.rows[i]["GL Balance"], f.rows[i]["IHUB Balance"])]
             f1 == WithCol(f, "Balance Difference", d)
             f2 == WithCol(f1, "Abs Difference", [i \in 1..NRows(f) |-> FAbs(d[i])])
             f3 == WithCol(f2, "Match Status",
                           [i \in 1..NRows(f) |-> Str(MatchStatus(f2.rows[i]["Abs Difference"]))])
             f4 == WithCol(f3, "Pct Difference",
                           [i \in 1..NRows(f) |-> PctDifference(d[i], f.rows[i]["IHUB Balance"])])
         IN  Ok(f4)

\* groupby('CompositeKey')[col].shift(1): the value, in frame order, of the
\* row before row i among the rows with its key; rows with no key are in no
\* group
ShiftInGroup(f, col, i) ==
    LET key == f.rows[i]["CompositeKey"]
        before == {j \in 1..(i - 1) : f.rows[j]["CompositeKey"] = key}
    IN  IF IsNull(key) \/ before = {} THEN NaN
        ELSE f.rows[CHOOSE j \in before : \A h \in before : h <= j][col]

\* shift(1) on the whole column, without the groupby
add_previous_differences_ungrouped(f) ==
    IF {"CompositeKey", "Balance Difference"} \ f.cols # {} THEN Raise("KeyError", f)
    ELSE LET f1 == WithCol(f, "Previous Balance Difference",
                           [i \in 1..NRows(f) |->
                               IF i = 1 THEN NaN ELSE f.rows[i - 1]["Balance Difference"]])
             f2 == WithCol(f1, "Difference Change",
                           [i \in 1..NRows(f) |->
                               FSub(f1.rows[i]["Balance Difference"],
                                    f1.rows[i]["Previous Balance Difference"])])
         IN  Ok(f2)

add_previous_differences(f) ==
    IF {"CompositeKey", "Balance Difference"} \ f.cols # {} THEN Raise("KeyError", f)
    ELSE LET f1 == WithCol(f, "Previous Balance Difference",
                           [i \in 1..NRows(f) |-> ShiftInGroup(f, "Balance Difference", i)])
             f2 == WithCol(f1, "Difference Change",
                           [i \in 1..NRows(f) |->
                               FSub(f1.rows[i]["Balance Difference"],
                                    f1.rows[i]["Previous Balance Difference"])])
         IN  Ok(f2)

column_order == required_columns \cup {"Balance Difference", "Abs Difference", "Pct Difference",
                                       "Previous Balance Difference", "Difference Change",
                                       "Match Status"}

\* a new frame: the columns of column_order that exist (CompositeKey dropped)
get_processed_data(f) == Ok(Project(f, column_order))

\* ------------------------------------------------------------------------
\* HybridAnomalyClassifier
\* ------------------------------------------------------------------------

small_difference == 1
large_difference == 10000

\* a threshold of 5 in place of 0.5
significant_variance_five == FInt(5)

\* thresholds['significant_variance'] = 0.5
significant_variance == FRatio(1, 2)

\* the literal 0.1 of the last rule
consistent_ratio == FRatio(1, 10)

\* a != b for numpy floats: true when either is NaN
FNe(a, b) == IsNaN(a) \/ IsNaN(b) \/ a # b

\* np.sign as a float64
SignOf(x) == IF IsNaN(x) THEN NaN ELSE FInt(FSign(x))

\* the rules with 'Large Difference' tried before 'New Difference'
classify_break_large_first(row) ==
    IF row["Match Status"] = Str("Match") THEN "Within Tolerance"
    ELSE LET current_diff == row["Balance Difference"]
             abs_diff == FAbs(current_diff)
             prev_diff == IF "Previous Balance Difference" \in DOMAIN row
                          THEN row["Previous Balance Difference"]
                          ELSE FInt(0)
             abs_prev_diff == IF ~IsNull(prev_diff) THEN FAbs(prev_diff) ELSE FInt(0)
         IN  IF FLt(abs_diff, FInt(small_difference)) THEN "Small Difference"
             ELSE IF FGt(abs_diff, FInt(large_difference)) THEN "Large Difference"
             ELSE IF IsNull(prev_diff) THEN "New Difference"
             ELSE IF FGt(FAbs(FSub(current_diff, prev_diff)),
                         FMul(significant_variance, abs_prev_diff))
                  THEN "Significant Variance"
             ELSE IF FNe(SignOf(current_diff), SignOf(prev_diff)) THEN "Direction Change"
             ELSE IF FLt(FAbs(FSub(current_diff, prev_diff)),
                         FMul(consistent_ratio, abs_prev_diff))
                  THEN "Consistent Difference"
             ELSE "Moderate Difference"

classify_break(row) ==
    IF row["Match Status"] = Str("Match") THEN "Within Tolerance"
    ELSE LET current_diff == row["Balance Difference"]
             abs_diff == FAbs(current_diff)
             prev_diff == IF "Previous Balance Difference" \in DOMAIN row
                          THEN row["Previous Balance Difference"]
                          ELSE FInt(0)
             abs_prev_diff == IF ~IsNull(prev_diff) THEN FAbs(prev_diff) ELSE FInt(0)
         IN  IF FLt(abs_diff, FInt(small_difference)) THEN "Small Difference"
             ELSE IF IsNull(prev_diff) THEN "New Difference"
             ELSE IF FGt(abs_diff, FInt(large_difference)) THEN "Large Difference"
             ELSE IF FGt(FAbs(FSub(current_diff, prev_diff)),
                         FMul(significant_variance, abs_prev_diff))
                  THEN "Significant Variance"
             ELSE IF FNe(SignOf(current_diff), SignOf(prev_diff)) THEN "Direction Change"
             ELSE IF FLt(FAbs(FSub(current_diff, prev_diff)),
                         FMul(consistent_ratio, abs_prev_diff))
                  THEN "Consistent Difference"
             ELSE "Moderate Difference"

\* df.apply(classify_break, axis=1) of a frame without rows is a frame, and
\* a frame cannot be assigned to one column
classify_all(f) ==
    IF "Match Status" \notin f.cols THEN Raise(E_NoMatchStatus, f)
    ELSE IF NRows(f) = 0 THEN Raise("ValueError", f)
    ELSE IF "Balance Difference" \notin f.cols
            /\ \E i \in 1..NRows(f) : f.rows[i]["Match Status"] # Str("Match")
         THEN Raise("KeyError", f)
    ELSE Ok(WithCol(f, "Break Classification",
                    [i \in 1..NRows(f) |-> Str(classify_break(f.rows[i]))]))

\* ------------------------------------------------------------------------
\* AnomalyDetector
\* ------------------------------------------------------------------------

BreakRows(f) == {i \in 1..NRows(f) : f.rows[i]["Match Status"] = Str("Break")}

\* detect_anomalies, for the labels (1 outlier, 0 inlier) the forest gives
\* the break rows: without breaks nothing is fitted; with breaks the scaler
\* and the forest are fitted and their labels joined back on the index
detect_anomalies(f, fitted, labels) ==
    IF "Match Status" \notin f.cols THEN [err |-> "KeyError", df |-> f, fitted |-> fitted]
    ELSE IF BreakRows(f) = {}
         THEN [err |-> "none", fitted |-> fitted,
               df |-> WithCol(f, "Is Anomaly", [i \in 1..NRows(f) |-> IntCell(0)])]
    ELSE IF {"Balance Difference", "Previous Balance Difference"} \ f.cols # {}
         THEN [err |-> "KeyError", df |-> f, fitted |-> fitted]
    ELSE [err |-> "none", fitted |-> TRUE,
          df |-> WithCol(f, "Is Anomaly",
                         [i \in 1..NRows(f) |->
                             IF \E j \in BreakRows(f) : f.rows[j]["index"] = f.rows[i]["index"]
                             THEN IntCell(labels[CHOOSE j \in BreakRows(f) :
                                                    f.rows[j]["index"] = f.rows[i]["index"]])
                             ELSE IntCell(0)])]

\* -score_samples of the fitted forest on the scaled features of a row, left
\* unevaluated
AnomalyScore(r) ==
    [k |-> "score",
     d |-> r["Balance Difference"],
     p |-> IF IsNull(r["Previous Balance Difference"]) THEN FInt(0)
           ELSE r["Previous Balance Difference"]]

\* calculate_anomaly_scores: only a frame without rows gets the score 0; a
\* scaler that was never fitted cannot transform
calculate_anomaly_scores(f, fitted) ==
    IF {"Balance Difference", "Previous Balance Difference"} \ f.cols # {}
    THEN Raise("KeyError", f)
    ELSE IF NRows(f) = 0 THEN Ok(WithCol(f, "Anomaly Score", <<>>))
    ELSE IF ~fitted THEN Raise("NotFittedError", f)
    ELSE Ok(WithCol(f, "Anomaly Score", [i \in 1..NRows(f) |-> AnomalyScore(f.rows[i])]))

\* ------------------------------------------------------------------------
\* AIIInsightsGenerator
\* ------------------------------------------------------------------------

NoTokenText == "Analysis unavailable (no HuggingFace token provided)"
FailedText == "Analysis generation failed"
NoTokenSummary == "AI summary unavailable (no HuggingFace token provided)"
LLMText == "generated text"

\* _initialize_llm_chain: no chain without a token; hub says whether the
\* HuggingFaceHub constructor succeeds
initialize_llm_chain(hf_token, hub) ==
    IF hf_token = None THEN [err |-> "none", llm_chain |-> None]
    ELSE IF hub = "init fails" THEN [err |-> "HubError", llm_chain |-> None]
    ELSE [err |-> "none", llm_chain |-> [k |-> "llm"]]

\* _generate_with_llm: a failing call is caught here
generate_with_llm(llm_chain, hub) ==
    IF llm_chain = None THEN NoTokenText
    ELSE IF hub = "call fails" THEN FailedText
    ELSE LLMText

\* generate_break_comments: the module never imports numpy, so the branch
\* without a chain stops at the name np; with a chain the comments are put
\* in a copy of the break rows and df.update() copies no new column back
generate_break_comments(f, llm_chain, hub) ==
    IF llm_chain = None THEN Raise("NameError", f)
    ELSE Ok(f)

\* generate_executive_summary
generate_executive_summary(f, llm_chain, hub) ==
    IF llm_chain = None THEN [err |-> "none", text |-> NoTokenSummary]
    ELSE IF "Is Anomaly" \notin f.cols THEN [err |-> "KeyError", text |-> ""]
    ELSE IF NRows(f) = 0 THEN [err |-> "ZeroDivisionError", text |-> ""]
    ELSE [err |-> "none", text |-> generate_with_llm(llm_chain, hub)]

\* ------------------------------------------------------------------------
\* ReconciliationWorkflow
\* ------------------------------------------------------------------------

\* full_pipeline: each method is called on what the one before returned
full_pipeline(file) ==
    Then(Then(Then(Then(Then(load_data(file), clean_data), preprocess_data),
                   calculate_differences), add_previous_differences), get_processed_data)

\* the stages execute() runs, in order
Stages == <<"processing", "detecting", "scoring", "classifying", "insights", "comments",
            "summary", "saving">>

StageNo(st) == CHOOSE i \in 1..Len(Stages) : Stages[i] = st

\* an except clause inside the loop of stages: the next stage runs anyway
AfterStage_continue(st, err) ==
    IF StageNo(st) = Len(Stages) THEN "returned"
    ELSE Stages[StageNo(st) + 1]

\* execute(): one try block around all stages; the first exception ends it
AfterStage(st, err) ==
    IF err # "none" THEN "returned"
    ELSE IF StageNo(st) = Len(Stages) THEN "returned"
    ELSE Stages[StageNo(st) + 1]

\* _save_results, for a disk on which the spreadsheet, or only the summary
\* file, may fail to be written
save_results(f, summary, disk) ==
    IF disk = "excel fails" THEN [err |-> "IOError", files |-> {}, results |-> None]
    ELSE IF disk = "summary fails"
         THEN [err |-> "IOError", files |-> {"results"}, results |-> None]
    ELSE [err |-> "none", files |-> {"results", "summary"}, results |-> f]

\* ------------------------------------------------------------------------
\* the input of the model
\* ------------------------------------------------------------------------

\* rows of a sheet, at most
MaxRows == 3

\* calls of the methods of one DataProcessor that return normally, at most
MaxCalls == 4

A == <<"a">>
AA == <<"a", "_", "a">>
B == <<"b">>

Dec(c) == FRatio(c, 100)

Sheet(id, date, gl, ihub) == [id |-> id, date |-> date, gl |-> gl, ihub |-> ihub]

\* the identities: Id1 and Id2 differ in Company and Account, Id3 is Id1
\* before stripping, Id4 has an Account number and an empty Currency
Id1 == <<Str(A), Str(AA), Str(B), Str(B), Str(B)>>
Id2 == <<Str(AA), Str(A), Str(B), Str(B), Str(B)>>
Id3 == <<Str(<<" ", "a">>), Str(<<"a", "_", "a", " ">>), Str(B), Str(B), Str(B)>>
Id4 == <<Str(A), IntCell(1), Str(B), NaN, Str(B)>>

SheetRows ==
    << Sheet(Id1, Date(1), Dec(500), Dec(100)),
       Sheet(Id1, Date(2), Dec(113), Dec(13)),
       Sheet(Id1, Date(2), Dec(100), Dec(50)),
       Sheet(Id2, Date(1), Dec(100), Dec(250)),
       Sheet(Id3, Date(3), Str(<<"$", "6", ".", "0", "0">>), Dec(100)),
       Sheet(Id4, Date(1), Dec(13), Dec(113)),
       Sheet(Id2, Str(<<"n", "/", "a">>), Str(<<"n", "/", "a">>), NaN) >>

\* the sheet read_excel returns: row i of the sheet gets the index label i - 1
File(sheet, cols) ==
    Frame(cols,
          [i \in 1..Len(sheet) |->
              [x \in cols \cup {"index"} |->
                  CASE x = "index" -> IntCell(i - 1)
                    [] x = "AsofDate" -> sheet[i].date
                    [] x = "Company" -> sheet[i].id[1]
                    [] x = "Account" -> sheet[i].id[2]
                    [] x = "AU" -> sheet[i].id[3]
                    [] x = "Currency" -> sheet[i].id[4]
                    [] x = "Primary Account" -> sheet[i].id[5]
                    [] x = "Secondary Account" -> Str(B)
                    [] x = "GL Balance" -> sheet[i].gl
                    [] x = "IHUB Balance" -> sheet[i].ihub]])

Unreadable == [k |-> "unreadable"]

Pick(ix) == [i \in 1..Len(ix) |-> SheetRows[ix[i]]]

\* the ways to take n different rows of SheetRows, in any order
Picks(n) == {ix \in [1..n -> 1..Len(SheetRows)] : \A i, j \in 1..n : i # j => ix[i] # ix[j]}

\* every sheet of at most MaxRows different rows of SheetRows
PipelineFiles == {File(Pick(ix), required_columns) : ix \in UNION {Picks(n) : n \in 1..MaxRows}}

\* the sheets the methods are called on in any order
StageFiles ==
    { File(Pick(<<1, 2>>), required_columns),
      File(Pick(<<4, 3, 5>>), required_columns),
      File(Pick(<<7, 1>>), required_columns),
      File(Pick(<<1, 2>>), required_columns \ {"IHUB Balance"}),
      Unreadable }

\* the sheets of the workflow: with breaks, with matches only, with both,
\* with rows that are all dropped, without a column, unreadable
WorkflowFiles ==
    { File(Pick(<<1, 4>>), required_columns),
      File(Pick(<<2, 3>>), required_columns),
      File(Pick(<<3>>), required_columns),
      File(Pick(<<4, 1, 3>>), required_columns),
      File(Pick(<<7>>), required_columns),
      File(Pick(<<1>>), required_columns \ {"AsofDate"}),
      Unreadable }

WorkflowInputs ==
    [file : WorkflowFiles,
     hf_token : {None, Str(A)},
     hub : {"ok", "init fails", "call fails"},
     disk : {"ok", "excel fails", "summary fails"}]

\* the differences and previous differences the classifier is called on
ClassifyDiffs ==
    {NaN, FInt(0), Dec(50), FSub(Dec(113), Dec(13)), FInt(1), FInt(3), Dec(330), FInt(-3),
     Dec(450), FInt(10000), Dec(1000001), FInt(-20000)}

ClassifyPrevs == {NaN, FInt(0), FInt(2), FInt(3), FInt(-3), FInt(9), FInt(10000)}

ClassifyRow(st, d, p, i, cols) ==
    [x \in cols \cup {"index"} |->
        CASE x = "index" -> IntCell(i)
          [] x = "Match Status" -> Str(st)
          [] x = "Balance Difference" -> d
          [] x = "Previous Balance Difference" -> p]

ClassifyCols == {"Match Status", "Balance Difference", "Previous Balance Difference"}

\* frames of one row, with and without the column of previous differences,
\* and frames of two rows with the same difference
ClassifyFrames ==
    {Frame(cols, <<ClassifyRow(st, d, p, 0, cols)>>) :
        st \in {"Match", "Break"}, d \in ClassifyDiffs, p \in ClassifyPrevs,
        cols \in {ClassifyCols, ClassifyCols \ {"Previous Balance Difference"}}}
    \cup
    {Frame(ClassifyCols, <<ClassifyRow("Break", d, p, 0, ClassifyCols),
                           ClassifyRow("Match", d, q, 1, ClassifyCols)>>) :
        d \in ClassifyDiffs, p \in ClassifyPrevs, q \in {NaN, FInt(3)}}

\* ------------------------------------------------------------------------
\* state
\* ------------------------------------------------------------------------

VARIABLES
    df,          \* DataProcessor.df: None, or the frame
    hist,        \* the methods that returned normally, in the order called
    last,        \* the last call: its method and the exception it raised
    out,         \* the frame get_processed_data last returned
    wf_pc,       \* ReconciliationWorkflow: "none", "constructed", the stage
                 \* execute() is about to run, or "returned"
    wf_in,       \* the sheet, the token and the behaviour of hub and disk
    wf_df,       \* the local df of execute()
    wf_fitted,   \* the scaler and the forest of the AnomalyDetector are fitted
    wf_chain,    \* AIIInsightsGenerator.llm_chain
    wf_summary,  \* the local summary of execute()
    wf_log,      \* the stages execute() has entered
    wf_failed,   \* the stage that raised, and its exception
    wf_files,    \* the files written
    wf_results,  \* ReconciliationWorkflow.results
    wf_ret       \* what execute() returned

dp_vars == <<df, hist, last, out>>

wf_vars == <<wf_pc, wf_in, wf_df, wf_fitted, wf_chain, wf_summary, wf_log, wf_failed,
             wf_files, wf_results, wf_ret>>

vars == <<df, hist, last, out, wf_pc, wf_in, wf_df, wf_fitted, wf_chain, wf_summary, wf_log,
          wf_failed, wf_files, wf_results, wf_ret>>

NoFailure == [stage |-> "none", err |-> "none"]

Init ==
    /\ df = None
    /\ hist = <<>>
    /\ last = [op |-> "__init__", err |-> "none"]
    /\ out = None
    /\ wf_pc = "none"
    /\ wf_in = None
    /\ wf_df = None
    /\ wf_fitted = FALSE
    /\ wf_chain = None
    /\ wf_summary = ""
    /\ wf_log = <<>>
    /\ wf_failed = NoFailure
    /\ wf_files = {}
    /\ wf_results = None
    /\ wf_ret = "none"

\* ------------------------------------------------------------------------
\* the methods of DataProcessor and classify_all, called one at a time
\* ------------------------------------------------------------------------

Returned(op, r) ==
    /\ last' = [op |-> op, err |-> r.err]
    /\ hist' = IF r.err = "none" THEN Append(hist, op) ELSE hist

LoadData(file) ==
    /\ LET r == load_data(file)
       IN  /\ df' = r.df
           /\ Returned("load_data", r)
    /\ UNCHANGED out
    /\ UNCHANGED wf_vars

\* a method of the chain: the guard on self.df, then the method
Method(op, Body(_), notReady) ==
    /\ IF df = None
       THEN /\ df' = df
            /\ Returned(op, Raise(notReady, df))
       ELSE LET r == Body(df)
            IN  /\ df' = r.df
                /\ Returned(op, r)
    /\ UNCHANGED out
    /\ UNCHANGED wf_vars

CleanData == Method("clean_data", clean_data, E_NotLoaded)

PreprocessData == Method("preprocess_data", preprocess_data, E_NotCleaned)

CalculateDifferences == Method("calculate_differences", calculate_differences, E_NotPreprocessed)

AddPreviousDifferences ==
    Method("add_previous_differences", add_previous_differences, E_NoDifferences)

GetProcessedData ==
    /\ IF df = None
       THEN /\ out' = out
            /\ Returned("get_processed_data", Raise(E_NotComplete, df))
       ELSE LET r == get_processed_data(df)
            IN  /\ out' = r.df
                /\ Returned("get_processed_data", r)
    /\ UNCHANGED df
    /\ UNCHANGED wf_vars

\* classify_all on the frame get_processed_data returned
ClassifyAll ==
    /\ out # None
    /\ LET r == classify_all(out)
       IN  /\ out' = r.df
           /\ Returned("classify_all", r)
    /\ UNCHANGED df
    /\ UNCHANGED wf_vars

\* classify_all on a frame of the caller's
ClassifyFrame(f) ==
    /\ out = None
    /\ LET r == classify_all(f)
       IN  /\ out' = r.df
           /\ Returned("classify_all", r)
    /\ UNCHANGED df
    /\ UNCHANGED wf_vars

\* the methods in any order, on one DataProcessor
More == Len(hist) < MaxCalls

NextStages ==
    \/ \E file \in StageFiles : More /\ df = None /\ LoadData(file)
    \/ More /\ CleanData
    \/ More /\ PreprocessData
    \/ More /\ CalculateDifferences
    \/ More /\ AddPreviousDifferences
    \/ More /\ GetProcessedData
    \/ More /\ ClassifyAll

SpecStages == Init /\ [][NextStages]_vars

\* the last method returned normally and was op
After(op) == last = [op |-> op, err |-> "none"]

\* the methods in the order of full_pipeline, then classify_all
NextPipeline ==
    \/ \E file \in PipelineFiles : After("__init__") /\ LoadData(file)
    \/ After("load_data") /\ CleanData
    \/ After("clean_data") /\ PreprocessData
    \/ After("preprocess_data") /\ CalculateDifferences
    \/ After("calculate_differences") /\ AddPreviousDifferences
    \/ After("add_previous_differences") /\ GetProcessedData
    \/ After("get_processed_data") /\ ClassifyAll

SpecPipeline == Init /\ [][NextPipeline]_vars

\* classify_all, and classify_all again on what it returned
NextClassify ==
    \/ \E f \in ClassifyFrames : ClassifyFrame(f)
    \/ More /\ ClassifyAll

SpecClassify == Init /\ [][NextClassify]_vars

\* ------------------------------------------------------------------------
\* ReconciliationWorkflow.execute, stage by stage
\* ------------------------------------------------------------------------

Construct(in) ==
    /\ wf_pc = "none"
    /\ wf_pc' = "constructed"
    /\ wf_in' = in
    /\ UNCHANGED <<wf_df, wf_fitted, wf_chain, wf_summary, wf_log, wf_failed, wf_files,
                   wf_results, wf_ret>>
    /\ UNCHANGED dp_vars

Execute ==
    /\ wf_pc = "constructed"
    /\ wf_pc' = Stages[1]
    /\ UNCHANGED <<wf_in, wf_df, wf_fitted, wf_chain, wf_summary, wf_log, wf_failed, wf_files,
                   wf_results, wf_ret>>
    /\ UNCHANGED dp_vars

\* stage st ends with err: the next stage, or the except clause and False
Leave(st, err) ==
    /\ wf_log' = Append(wf_log, st)
    /\ wf_pc' = AfterStage(st, err)
    /\ wf_failed' = IF err # "none" THEN [stage |-> st, err |-> err] ELSE wf_failed
    /\ wf_ret' = IF AfterStage(st, err) # "returned" THEN wf_ret
                 ELSE IF err # "none" THEN "False" ELSE "True"

Processing ==
    /\ wf_pc = "processing"
    /\ LET r == full_pipeline(wf_in.file)
       IN  /\ wf_df' = IF r.err = "none" THEN r.df ELSE wf_df
           /\ Leave("processing", r.err)
    /\ UNCHANGED <<wf_in, wf_fitted, wf_chain, wf_summary, wf_files, wf_results>>
    /\ UNCHANGED dp_vars

Detecting ==
    /\ wf_pc = "detecting"
    /\ \E labels \in [BreakRows(wf_df) -> {0, 1}] :
          LET r == detect_anomalies(wf_df, wf_fitted, labels)
          IN  /\ wf_df' = r.df
              /\ wf_fitted' = r.fitted
              /\ Leave("detecting", r.err)
    /\ UNCHANGED <<wf_in, wf_chain, wf_summary, wf_files, wf_results>>
    /\ UNCHANGED dp_vars

Scoring ==
    /\ wf_pc = "scoring"
    /\ LET r == calculate_anomaly_scores(wf_df, wf_fitted)
       IN  /\ wf_df' = r.df
           /\ Leave("scoring", r.err)
    /\ UNCHANGED <<wf_in, wf_fitted, wf_chain, wf_summary, wf_files, wf_results>>
    /\ UNCHANGED dp_vars

Classifying ==
    /\ wf_pc = "classifying"
    /\ LET r == classify_all(wf_df)
       IN  /\ wf_df' = r.df
           /\ Leave("classifying", r.err)
    /\ UNCHANGED <<wf_in, wf_fitted, wf_chain, wf_summary, wf_files, wf_results>>
    /\ UNCHANGED dp_vars

\* AIIInsightsGenerator(hf_token=self.hf_token)
Insights ==
    /\ wf_pc = "insights"
    /\ LET r == initialize_llm_chain(wf_in.hf_token, wf_in.hub)
       IN  /\ wf_chain' = r.llm_chain
           /\ Leave("insights", r.err)
    /\ UNCHANGED <<wf_in, wf_df, wf_fitted, wf_summary, wf_files, wf_results>>
    /\ UNCHANGED dp_vars

Comments ==
    /\ wf_pc = "comments"
    /\ LET r == generate_break_comments(wf_df, wf_chain, wf_in.hub)
       IN  /\ wf_df' = r.df
           /\ Leave("comments", r.err)
    /\ UNCHANGED <<wf_in, wf_fitted, wf_chain, wf_summary, wf_files, wf_results>>
    /\ UNCHANGED dp_vars

Summary ==
    /\ wf_pc = "summary"
    /\ LET r == generate_executive_summary(wf_df, wf_chain, wf_in.hub)
       IN  /\ wf_summary' = r.text
           /\ Leave("summary", r.err)
    /\ UNCHANGED <<wf_in, wf_df, wf_fitted, wf_chain, wf_files, wf_results>>
    /\ UNCHANGED dp_vars

Saving ==
    /\ wf_pc = "saving"
    /\ LET r == save_results(wf_df, wf_summary, wf_in.disk)
       IN  /\ wf_files' = r.files
           /\ wf_results' = r.results
           /\ Leave("saving", r.err)
    /\ UNCHANGED <<wf_in, wf_df, wf_fitted, wf_chain, wf_summary>>
    /\ UNCHANGED dp_vars

NextWorkflow ==
    \/ \E in \in WorkflowInputs : Construct(in)
    \/ Execute
    \/ Processing
    \/ Detecting
    \/ Scoring
    \/ Classifying
    \/ Insights
    \/ Comments
    \/ Summary
    \/ Saving

SpecWorkflow == Init /\ [][NextWorkflow]_vars

\* ------------------------------------------------------------------------
\* the claims about DataProcessor
\* ------------------------------------------------------------------------

Ran(h) == {h[i] : i \in 1..Len(h)}

\* a balance of two decimals in cents
Cents(x) == FRint(FMul(x, FInt(100)))

AbsInt(n) == IF n < 0 THEN -n ELSE n

\* the status the tolerance rule gives two balances read as decimals
DecimalStatus(gl, ihub) == IF AbsInt(Cents(gl) - Cents(ihub)) < 100 THEN "Match" ELSE "Break"

\* C1: after calculate_differences every record that survived clean_data has
\* Match Status 'Match' if and only if |GL Balance - IHUB Balance| < 1.0, the
\* balances taken at 2 decimal places, and 'Break' otherwise.
C1_MatchIffDifferenceBelowOne ==
    After("calculate_differences") =>
        \A i \in 1..NRows(df) :
            df.rows[i]["Match Status"]
                = Str(DecimalStatus(df.rows[i]["GL Balance"], df.rows[i]["IHUB Balance"]))

\* calculate_differences has run on balances that are exactly 1.00 apart
C1_Witness ==
    /\ After("calculate_differences")
    /\ \E i \in 1..NRows(df) :
          AbsInt(Cents(df.rows[i]["GL Balance"]) - Cents(df.rows[i]["IHUB Balance"])) = 100

\* the identity key of the specification: the five fields joined by '_'
IdentityKey(r) ==
    r["Company"].s \o <<"_">> \o r["Account"].s \o <<"_">> \o r["AU"].s \o <<"_">>
    \o r["Currency"].s \o <<"_">> \o r["Primary Account"].s

\* the rows before row i that share its identity key
SeriesBefore(f, i) == {j \in 1..(i - 1) : IdentityKey(f.rows[j]) = IdentityKey(f.rows[i])}

Latest(js) == CHOOSE j \in js : \A h \in js : h <= j

C7_HalfIsSmallDifference ==
    After("classify_all") =>
        \A i \in 1..NRows(out) :
            out.rows[i]["Balance Difference"] = Dec(50)
                => out.rows[i]["Break Classification"] = Str("Small Difference")

\* C7 amended: such a record is a Match, and classify_all gives it 'Within
\* Tolerance', whatever its previous difference.
C7_HalfIsWithinTolerance ==
    After("classify_all") =>
        \A i \in 1..NRows(out) :
            out.rows[i]["Balance Difference"] = Dec(50)
                => /\ out.rows[i]["Match Status"] = Str("Match")
                   /\ out.rows[i]["Break Classification"] = Str("Within Tolerance")

\* classify_all has run on a record of difference 0.50 that has a previous
\* difference, and on one that has none
C7_Witness ==
    /\ After("classify_all")
    /\ \E i, j \in 1..NRows(out) :
          /\ out.rows[i]["Balance Difference"] = Dec(50)
          /\ ~IsNull(out.rows[i]["Previous Balance Difference"])
          /\ out.rows[j]["Match Status"] = Str("Break")

IdentityFields(r) == <<r["Company"], r["Account"], r["AU"], r["Currency"], r["Primary Account"]>>

\* C10: records share a CompositeKey only if they agree on Company, Account,
\* AU, Currency and Primary Account, so a Previous Balance Difference always
\* comes from a record of the same five fields, also when a field holds '_'.
C10_KeyInjective ==
    /\ After("preprocess_data") =>
          \A i, j \in 1..NRows(df) :
              df.rows[i]["CompositeKey"] = df.rows[j]["CompositeKey"]
                  => IdentityFields(df.rows[i]) = IdentityFields(df.rows[j])
    /\ After("add_previous_differences") =>
          \A i \in 1..NRows(df) :
              ~IsNull(df.rows[i]["Previous Balance Difference"])
                  => \E j \in 1..(i - 1) :
                        /\ IdentityFields(df.rows[j]) = IdentityFields(df.rows[i])
                        /\ df.rows[j]["Balance Difference"]
                             = df.rows[i]["Previous Balance Difference"]

\* preprocess_data has run on two records that differ in Company and Account
C10_Witness ==
    /\ After("preprocess_data")
    /\ \E i, j \in 1..NRows(df) :
          /\ df.rows[i]["Company"] # df.rows[j]["Company"]
          /\ df.rows[i]["Account"] # df.rows[j]["Account"]

\* the method that has to run before op
Predecessor(op) ==
    CASE op = "clean_data" -> "load_data"
      [] op = "preprocess_data" -> "clean_data"
      [] op = "calculate_differences" -> "preprocess_data"
      [] op = "add_previous_differences" -> "calculate_differences"
      [] op = "get_processed_data" -> "add_previous_differences"

ChainMethods == {"clean_data", "preprocess_data", "calculate_differences",
                 "add_previous_differences", "get_processed_data"}

\* C8: in every sequence of calls, a method of DataProcessor called before
\* its predecessor has run raises the ValueError that names the step to call
\* first and leaves the record set as it was; classify_all raises that error
\* whenever Match Status is absent.
C8_OutOfOrderCallFails ==
    [][/\ (last'.op \in ChainMethods /\ Predecessor(last'.op) \notin Ran(hist))
            => (last'.err \in StageOrderErrors /\ df' = df)
       /\ (last'.op = "classify_all" /\ "Match Status" \notin out.cols)
            => (last'.err = E_NoMatchStatus /\ out' = out)]_vars

\* a method was called on a loaded sheet before its predecessor had run
C8_Witness ==
    /\ df # None
    /\ last.op \in ChainMethods
    /\ Predecessor(last.op) \notin Ran(hist)

\* ------------------------------------------------------------------------
\* the claims about HybridAnomalyClassifier
\* ------------------------------------------------------------------------

\* the rules of the specification, in their order, for a record of status st,
\* difference d and previous difference p
RuleHolds(k, st, d, p) ==
    CASE k = 1 -> st = Str("Match")
      [] k = 2 -> FLt(FAbs(d), FInt(1))
      [] k = 3 -> IsNull(p)
      [] k = 4 -> FGt(FAbs(d), FInt(10000))
      [] k = 5 -> FGt(FAbs(FSub(d, p)), FMul(FRatio(1, 2), FAbs(p)))
      [] k = 6 -> FSign(d) # FSign(p)
      [] k = 7 -> FLt(FAbs(FSub(d, p)), FMul(FRatio(1, 10), FAbs(p)))
      [] k = 8 -> TRUE

RuleLabels == <<"Within Tolerance", "Small Difference", "New Difference", "Large Difference",
                "Significant Variance", "Direction Change", "Consistent Difference",
                "Moderate Difference">>

BreakLabels == {RuleLabels[k] : k \in 2..Len(RuleLabels)}

\* the first rule that holds
FirstRule(st, d, p) ==
    CHOOSE k \in 1..Len(RuleLabels) :
        RuleHolds(k, st, d, p) /\ \A j \in 1..(k - 1) : ~RuleHolds(j, st, d, p)

\* classify_all returned normally on a frame with the previous differences
Classified ==
    /\ After("classify_all")
    /\ "Previous Balance Difference" \in out.cols

Labels(f) == [i \in 1..NRows(f) |-> f.rows[i]["Break Classification"]]

\* every record with a difference gets the label of the first rule that
\* holds, and every Break record one of the 7 break labels
FirstRuleLabels ==
    Classified =>
        \A i \in 1..NRows(out) :
            LET r == out.rows[i]
            IN  ~IsNull(r["Balance Difference"]) =>
                    /\ r["Break Classification"]
                         = Str(RuleLabels[FirstRule(r["Match Status"], r["Balance Difference"],
                                                    r["Previous Balance Difference"])])
                    /\ r["Match Status"] = Str("Break")
                         => r["Break Classification"] \in {Str(l) : l \in BreakLabels}

\* classify_all on a classified record set leaves every label as it is
SameLabelsAgain ==
    (After("classify_all") /\ last' = last) => Labels(out') = Labels(out)

\* C3: for every record with a Match Status, a non-null difference d and a
\* previous difference p (null or a number), classify_break returns the label
\* of the first rule that holds in the fixed order of the eight rules; every
\* Break record gets exactly one of the 7 break labels, never 'Within
\* Tolerance'; classifying the same record set again yields the same labels.
C3_FirstRuleInOrder == []FirstRuleLabels /\ [][SameLabelsAgain]_vars

\* classify_all has run twice on a Break record that only the last-but-one
\* rule labels, next to a Match record
C3_Witness ==
    /\ Classified
    /\ Len(hist) >= 2
    /\ \E i, j \in 1..NRows(out) :
          /\ out.rows[i]["Match Status"] = Str("Break")
          /\ out.rows[i]["Break Classification"] = Str("Consistent Difference")
          /\ out.rows[j]["Break Classification"] = Str("Within Tolerance")

\* rules 1 to 5 do not fire for the record
PastRuleFive(r, p) ==
    /\ r["Match Status"] = Str("Break")
    /\ ~FLt(FAbs(r["Balance Difference"]), FInt(1))
    /\ ~IsNull(p)
    /\ ~FGt(FAbs(r["Balance Difference"]), FInt(10000))
    /\ ~FGt(FAbs(FSub(r["Balance Difference"], p)), FMul(FRatio(1, 2), FAbs(p)))

\* the previous difference classify_break reads: 0 where the column is absent
PrevOf(r) ==
    IF "Previous Balance Difference" \in DOMAIN r THEN r["Previous Balance Difference"]
    ELSE FInt(0)

\* C9: classify_break never returns 'Direction Change' for a record with a
\* non-null difference d: where rules 1 to 5 do not fire, d and p have the
\* same sign, which is not zero.
C9_NoDirectionChange ==
    After("classify_all") =>
        \A i \in 1..NRows(out) :
            LET r == out.rows[i]
            IN  ~IsNull(r["Balance Difference"]) =>
                    /\ r["Break Classification"] # Str("Direction Change")
                    /\ PastRuleFive(r, PrevOf(r))
                         => /\ FSign(r["Balance Difference"]) = FSign(PrevOf(r))
                            /\ FSign(r["Balance Difference"]) # 0

\* classify_all has run on a Break record whose difference and previous
\* difference have opposite signs, and an earlier rule labelled it
C9_Witness ==
    /\ Classified
    /\ \E i \in 1..NRows(out) :
          LET r == out.rows[i]
          IN  /\ r["Match Status"] = Str("Break")
              /\ ~IsNull(r["Balance Difference"])
              /\ ~IsNull(r["Previous Balance Difference"])
              /\ FSign(r["Balance Difference"]) = 1
              /\ FSign(r["Previous Balance Difference"]) = -1
              /\ r["Break Classification"] = Str("Significant Variance")

\* ------------------------------------------------------------------------
\* the claims about ReconciliationWorkflow
\* ------------------------------------------------------------------------

Entered(st) == st \in Ran(wf_log)

\* the batch is not empty and every record of it is a Match
AllMatch(f) ==
    /\ f # None
    /\ "Match Status" \in f.cols
    /\ NRows(f) > 0
    /\ \A i \in 1..NRows(f) : f.rows[i]["Match Status"] = Str("Match")

\* C4: for a batch that is not empty and has no break, detect_anomalies and
\* then calculate_anomaly_scores on a fresh AnomalyDetector raise nothing and
\* set Is Anomaly = 0 and Anomaly Score = 0 for every record.
C4_ZeroBreaksScoreZero ==
    (Entered("scoring") /\ AllMatch(wf_df)) =>
        /\ wf_failed = NoFailure
        /\ "Anomaly Score" \in wf_df.cols
        /\ \A i \in 1..NRows(wf_df) :
              /\ wf_df.rows[i]["Is Anomaly"] = IntCell(0)
              /\ wf_df.rows[i]["Anomaly Score"] = FInt(0)

\* scoring has run on a batch without a break
C4_Witness == Entered("scoring") /\ AllMatch(wf_df)

CoreStages == {"processing", "detecting", "scoring", "classifying"}

\* the collaborator is absent, or its generation call fails
NoNarrative == wf_in.hf_token = None \/ wf_in.hub = "call fails"

\* C5: when there is no HuggingFace token, or the generation call fails,
\* execute still completes the batch: generate_break_comments and
\* generate_executive_summary raise nothing and return placeholder text, the
\* results are saved and execute returns True.
C5_CompletesWithoutNarrative ==
    (wf_pc = "returned" /\ Entered("comments") /\ NoNarrative /\ wf_in.disk = "ok") =>
        /\ wf_failed = NoFailure
        /\ wf_summary \in {NoTokenSummary, FailedText}
        /\ wf_files = {"results", "summary"}
        /\ wf_results # None
        /\ wf_ret = "True"

\* execute has returned after the comments stage of a batch without a token
C5_Witness == wf_pc = "returned" /\ Entered("comments") /\ wf_in.hf_token = None

Occurrences(h, st) == Cardinality({i \in 1..Len(h) : h[i] = st})

\* C6: if data processing, anomaly detection, scoring or classification
\* raises, no later stage runs, the failed stage is not run again, execute
\* returns False, neither file is written and results stays None; a file is
\* written only after every stage before the saving has succeeded.
C6_FailureAbortsBatch ==
    /\ wf_failed.stage \in CoreStages =>
          /\ wf_log[Len(wf_log)] = wf_failed.stage
          /\ Occurrences(wf_log, wf_failed.stage) = 1
          /\ wf_pc = "returned"
          /\ wf_ret = "False"
          /\ wf_files = {}
          /\ wf_results = None
    /\ wf_files # {} =>
          /\ wf_log = Stages
          /\ wf_failed.stage \in {"none", "saving"}
    /\ wf_results # None => (wf_failed = NoFailure /\ wf_ret = "True")

\* the classification of a batch has raised after three stages had succeeded
C6_Witness ==
    /\ wf_failed.stage = "classifying"
    /\ wf_pc = "returned"
    /\ Len(wf_log) = StageNo("classifying")

=============================================================================
